---- MODULE Spec2Model ----
(***************************************************************************)
(* A model of the job_bots package of JobGenie: the bot factory            *)
(* (job_bots/factory.py), the applied-jobs log (job_bots/utils.py), the    *)
(* apply flows of the three platform bots (job_bots/platforms/*.py), the   *)
(* Google search of google_job_scraper.py and the driver life cycle and    *)
(* job search of job_bots/base_bot.py.                                     *)
(*                                                                         *)
(* Python strings are sequences of one-character strings, so that          *)
(* str.lower(), the `in` substring test, str.strip() and the line          *)
(* iteration of a text file are computed as Python computes them.          *)
(***************************************************************************)
EXTENDS Integers, Sequences, FiniteSets, TLC

VARIABLES
    call,         \* the last call of a function of factory.py / utils.py, with its arguments
    ret,          \* what that call returned
    applied_txt,  \* utils.APPLIED_JOBS_FILE: [exists, content]
    recorded,     \* history: the URLs record_applied_job has written so far
    bot,          \* which platform bot runs login_and_apply_to_jobs
    job_urls,     \* the job_urls argument of login_and_apply_to_jobs
    pc,           \* where login_and_apply_to_jobs is
    idx,          \* number of URLs of job_urls the for loop has taken
    invoked,      \* history: the URLs apply_to_job was called with, in call order
    last,         \* the last apply_to_job call: the page it met, what it did, its result
    scraper,      \* a GoogleSearchScraper.search call: where it is, what it collected
    ctx           \* a bot used as a context manager: its driver, the calls made on drivers

vars == <<call, ret, applied_txt, recorded, bot, job_urls, pc, idx, invoked, last, scraper, ctx>>

\* Python's None.
None == "<None>"

-----------------------------------------------------------------------------
(* Python str operations                                                    *)

UpperAlpha == <<"A", "B", "C", "D", "E", "F", "G", "H", "I", "J", "K", "L", "M",
                "N", "O", "P", "Q", "R", "S", "T", "U", "V", "W", "X", "Y", "Z">>

LowerAlpha == <<"a", "b", "c", "d", "e", "f", "g", "h", "i", "j", "k", "l", "m",
                "n", "o", "p", "q", "r", "s", "t", "u", "v", "w", "x", "y", "z">>

\* str.lower() on one character.
LowerChar(c) ==
    IF \E i \in 1..Len(UpperAlpha) : UpperAlpha[i] = c
    THEN LowerAlpha[CHOOSE i \in 1..Len(UpperAlpha) : UpperAlpha[i] = c]
    ELSE c

\* str.lower()
Lower(s) == [i \in 1..Len(s) |-> LowerChar(s[i])]

\* Python's `sub in s` on strings.
Contains(s, sub) ==
    \E i \in 0..(Len(s) - Len(sub)) : SubSeq(s, i + 1, i + Len(sub)) = sub

\* Python's `x in xs` on lists.
InList(x, xs) == \E i \in 1..Len(xs) : xs[i] = x

-----------------------------------------------------------------------------
(* job_bots/factory.py                                                      *)

JOIN_COM == <<"j", "o", "i", "n", ".", "c", "o", "m">>
BOARDS_GREENHOUSE_IO == <<"b", "o", "a", "r", "d", "s", ".", "g", "r", "e", "e", "n", "h", "o", "u", "s", "e", ".", "i", "o">>
JOB_BOARDS_GREENHOUSE_IO == <<"j", "o", "b", "-", "b", "o", "a", "r", "d", "s", ".", "g", "r", "e", "e", "n", "h", "o", "u", "s", "e", ".", "i", "o">>
GREENHOUSE_IO == <<"g", "r", "e", "e", "n", "h", "o", "u", "s", "e", ".", "i", "o">>
LEVER_CO == <<"l", "e", "v", "e", "r", ".", "c", "o">>
JOBS_LEVER_CO == <<"j", "o", "b", "s", ".", "l", "e", "v", "e", "r", ".", "c", "o">>

\* A detect_platform that tests the Greenhouse markers before the join.com marker.
detect_platform_greenhouse_first(url) ==
    LET url_lower == Lower(url) IN
    IF \/ Contains(url_lower, BOARDS_GREENHOUSE_IO)
       \/ Contains(url_lower, JOB_BOARDS_GREENHOUSE_IO)
       \/ Contains(url_lower, GREENHOUSE_IO) THEN "greenhouse"
    ELSE IF Contains(url_lower, JOIN_COM) THEN "join"
    ELSE IF Contains(url_lower, LEVER_CO) \/ Contains(url_lower, JOBS_LEVER_CO) THEN "lever"
    ELSE None

\* JobApplicationBotFactory.detect_platform
detect_platform(url) ==
    LET url_lower == Lower(url) IN
    IF Contains(url_lower, JOIN_COM) THEN "join"
    ELSE IF \/ Contains(url_lower, BOARDS_GREENHOUSE_IO)
            \/ Contains(url_lower, JOB_BOARDS_GREENHOUSE_IO)
            \/ Contains(url_lower, GREENHOUSE_IO) THEN "greenhouse"
    ELSE IF Contains(url_lower, LEVER_CO) \/ Contains(url_lower, JOBS_LEVER_CO) THEN "lever"
    ELSE None   \* the bare `return` of line 42

\* Python's `not platform` for a value that is a str or None.
Falsy(x) == x = None \/ x = ""

\* The dict `d` after `d[k].append(x)`, `d[k]` being created empty when k is no key.
DictAppend(d, k, x) ==
    [q \in DOMAIN d \cup {k} |->
        IF q = k THEN (IF k \in DOMAIN d THEN Append(d[k], x) ELSE <<x>>)
        ELSE d[q]]

\* The empty dict.
EmptyDict == [q \in {} |-> <<>>]

\* A grouping loop that does not add a URL its group already holds.
RECURSIVE group_loop_dedup(_, _, _)
group_loop_dedup(urls, i, grouped_urls) ==
    IF i > Len(urls) THEN grouped_urls
    ELSE LET platform == detect_platform(urls[i]) IN
         IF Falsy(platform) THEN group_loop_dedup(urls, i + 1, grouped_urls)
         ELSE IF platform \in DOMAIN grouped_urls /\ InList(urls[i], grouped_urls[platform])
              THEN group_loop_dedup(urls, i + 1, grouped_urls)
              ELSE group_loop_dedup(urls, i + 1, DictAppend(grouped_urls, platform, urls[i]))

\* The for loop of group_urls_by_platform from its i-th iteration on.
RECURSIVE group_loop(_, _, _)
group_loop(urls, i, grouped_urls) ==
    IF i > Len(urls) THEN grouped_urls
    ELSE LET platform == detect_platform(urls[i]) IN
         IF Falsy(platform) THEN group_loop(urls, i + 1, grouped_urls)
         ELSE group_loop(urls, i + 1, DictAppend(grouped_urls, platform, urls[i]))

\* JobApplicationBotFactory.group_urls_by_platform
group_urls_by_platform(urls) == group_loop(urls, 1, EmptyDict)

\* config.PlatformConfig(platform_name, login_url, cookies_file, api_key, custom_settings)
PlatformConfig(platform_name, login_url, cookies_file, custom_settings) ==
    [platform_name |-> platform_name, login_url |-> login_url,
     cookies_file |-> cookies_file, api_key |-> None,
     custom_settings |-> custom_settings]

\* PlatformConfig.load_all_platforms
load_all_platforms ==
    [p \in {"join", "greenhouse"} |->
        IF p = "join"
        THEN PlatformConfig("join", "https://join.com/auth/login", "cookies.json", {})
        ELSE PlatformConfig("greenhouse", None, None, {"use_analyzer"})]

\* BaseJobApplicationBot.__init__ and the subclass __init__: the fields of the new bot.
NewBot(class, platform_config, cookies_file) ==
    [class |-> class,
     platform_config |-> platform_config,
     cookies_file |-> IF cookies_file = None /\ ~Falsy(platform_config.cookies_file)
                      THEN platform_config.cookies_file
                      ELSE (IF Falsy(cookies_file) THEN None ELSE cookies_file),
     platform_url |-> IF class = "JoinApplicationBot"
                      THEN (IF Falsy(platform_config.login_url)
                            THEN "https://join.com/auth/login"
                            ELSE platform_config.login_url)
                      ELSE None,
     driver |-> None]

\* A create_bot that falls back to the join.com configuration.
create_bot_join_default(platform, platform_configs, cookies_file) ==
    LET platform_config ==
            IF platform \in DOMAIN platform_configs THEN platform_configs[platform]
            ELSE load_all_platforms["join"]
    IN  IF platform = "greenhouse"
        THEN NewBot("GreenhouseApplicationBot", platform_config, cookies_file)
        ELSE IF platform = "lever"
        THEN NewBot("LeverApplicationBot", platform_config, cookies_file)
        ELSE NewBot("JoinApplicationBot", platform_config, cookies_file)

\* JobApplicationBotFactory.create_bot (driver_path is only stored)
create_bot(platform, platform_configs, cookies_file) ==
    LET platform_config ==
            IF platform \in DOMAIN platform_configs THEN platform_configs[platform]
            ELSE PlatformConfig(platform, None, None, {})
    IN  IF platform = "greenhouse"
        THEN NewBot("GreenhouseApplicationBot", platform_config, cookies_file)
        ELSE IF platform = "lever"
        THEN NewBot("LeverApplicationBot", platform_config, cookies_file)
        ELSE NewBot("JoinApplicationBot", platform_config, cookies_file)

-----------------------------------------------------------------------------
(* Inputs of the factory functions                                          *)

MaxFrags == 2     \* a URL is made of at most this many fragments
MaxUrls == 3      \* length of the list given to group_urls_by_platform

FragJoinUpper == <<"J", "o", "i", "n", ".", "C", "O", "M">>
FragJoinCut == <<"j", "o", "i", "n", ".", "c", "o">>
FragM == <<"m", "/">>
FragGreenhouse == <<"b", "o", "a", "r", "d", "s", ".", "G", "r", "e", "e", "n", "h", "o", "u", "s", "e", ".", "i", "o", "/">>
FragLever == <<"j", "o", "b", "s", ".", "l", "e", "v", "e", "r", ".", "c", "o", "/">>
FragOther == <<"e", "x", "a", "m", "p", "l", "e", ".", "o", "r", "g", "/">>

Fragments == {FragJoinUpper, FragJoinCut, FragM, FragGreenhouse, FragLever, FragOther}

\* The URLs made of 1..n fragments.
RECURSIVE UrlsOf(_)
UrlsOf(n) ==
    IF n <= 1 THEN Fragments
    ELSE UrlsOf(n - 1) \cup {u \o f : u \in UrlsOf(n - 1), f \in Fragments}

AllUrls == UrlsOf(MaxFrags)

\* The URLs the lists are made of: one per platform, one of no platform, one
\* whose marker spans two fragments and one with two markers.
SampleUrls ==
    {FragJoinUpper, FragGreenhouse, FragLever, FragOther,
     FragJoinCut \o FragM, FragGreenhouse \o JOIN_COM}

UrlLists == UNION {[1..n -> SampleUrls] : n \in 0..MaxUrls}

\* The platform argument of create_bot: detect_platform's results and a foreign name.
PlatformArgs == {"join", "greenhouse", "lever", "workday", None}

\* The platform_configs argument: load_all_platforms with or without a lever
\* entry, and the dicts with fewer entries.
KnownConfigs ==
    [p \in {"join", "greenhouse", "lever"} |->
        IF p = "lever" THEN PlatformConfig("lever", None, "lever_cookies.json", {})
        ELSE load_all_platforms[p]]

ConfigDicts == {[p \in K |-> KnownConfigs[p]] : K \in SUBSET DOMAIN KnownConfigs}

CookiesArgs == {None, "my_cookies.json"}

NoCall == [op |-> "none", done |-> TRUE]

NoApply == [bot |-> None, result |-> None]
NoSearch == [phase |-> "none"]
NoContext == [pc |-> "none"]

\* The calls of the static methods of JobApplicationBotFactory, with their arguments.
FactoryCalls ==
    {[op |-> "detect_platform", done |-> FALSE, url |-> url] : url \in AllUrls}
    \cup {[op |-> "group_urls_by_platform", done |-> FALSE, urls |-> urls] : urls \in UrlLists}
    \cup {[op |-> "create_bot", done |-> FALSE, platform |-> platform,
           platform_configs |-> platform_configs, cookies_file |-> cookies_file] :
             platform \in PlatformArgs, platform_configs \in ConfigDicts,
             cookies_file \in CookiesArgs}

-----------------------------------------------------------------------------
(* The factory: a call is drawn, the action of its method runs it           *)

InitFactory ==
    /\ call \in FactoryCalls
    /\ ret = None
    /\ applied_txt = [exists |-> FALSE, content |-> <<>>]
    /\ recorded = {}
    /\ bot = None
    /\ job_urls = <<>>
    /\ pc = "idle"
    /\ idx = 0
    /\ invoked = <<>>
    /\ last = NoApply
    /\ scraper = NoSearch
    /\ ctx = NoContext

Returned(op) == call.op = op /\ call.done

DetectPlatform ==
    /\ call.op = "detect_platform" /\ ~call.done
    /\ call' = [call EXCEPT !.done = TRUE]
    /\ ret' = detect_platform(call.url)
    /\ UNCHANGED <<applied_txt, recorded, bot, job_urls, pc, idx, invoked, last, scraper, ctx>>

GroupUrlsByPlatform ==
    /\ call.op = "group_urls_by_platform" /\ ~call.done
    /\ call' = [call EXCEPT !.done = TRUE]
    /\ ret' = group_urls_by_platform(call.urls)
    /\ UNCHANGED <<applied_txt, recorded, bot, job_urls, pc, idx, invoked, last, scraper, ctx>>

CreateBot ==
    /\ call.op = "create_bot" /\ ~call.done
    /\ call' = [call EXCEPT !.done = TRUE]
    /\ ret' = create_bot(call.platform, call.platform_configs, call.cookies_file)
    /\ UNCHANGED <<applied_txt, recorded, bot, job_urls, pc, idx, invoked, last, scraper, ctx>>

NextFactory == DetectPlatform \/ GroupUrlsByPlatform \/ CreateBot

SpecFactory == InitFactory /\ [][NextFactory]_vars

-----------------------------------------------------------------------------
(* Claims about the factory                                                 *)

\* Some substring of url is the marker once lowered.
HasMarker(url, marker) ==
    \E i \in 0..(Len(url) - Len(marker)) :
        Lower(SubSeq(url, i + 1, i + Len(marker))) = marker

\* C1: detect_platform compares case-insensitively and answers 'join' for a URL
\* containing 'join.com', otherwise 'greenhouse' for one containing
\* 'greenhouse.io', otherwise 'lever' for one containing 'lever.co': the first
\* marker that matches, in that order, decides.
C1_DetectOrder ==
    Returned("detect_platform") =>
        /\ HasMarker(call.url, JOIN_COM) => ret = "join"
        /\ (~HasMarker(call.url, JOIN_COM) /\ HasMarker(call.url, GREENHOUSE_IO))
              => ret = "greenhouse"
        /\ (/\ ~HasMarker(call.url, JOIN_COM)
            /\ ~HasMarker(call.url, GREENHOUSE_IO)
            /\ HasMarker(call.url, LEVER_CO)) => ret = "lever"

\* A URL with the join.com marker in upper case after a Greenhouse marker is 'join'.
C1_Witness ==
    /\ Returned("detect_platform")
    /\ call.url = FragGreenhouse \o FragJoinUpper
    /\ ret = "join"

\* C2: detect_platform returns a platform identifier for every URL, a URL of no
\* known platform defaulting to 'join'.
C2_DefaultsToJoin ==
    Returned("detect_platform") =>
        /\ ret \in {"join", "greenhouse", "lever"}
        /\ (/\ ~HasMarker(call.url, JOIN_COM)
            /\ ~HasMarker(call.url, GREENHOUSE_IO)
            /\ ~HasMarker(call.url, LEVER_CO)) => ret = "join"

\* The URLs of urls whose detected platform is p, in the order of urls.
UrlsOfPlatform(urls, p) == SelectSeq(urls, LAMBDA u : detect_platform(u) = p)

\* C3: group_urls_by_platform partitions the recognised URLs: each group is the
\* input restricted to the URLs of its platform (same multiplicity, same
\* order), every recognised URL has its group, the groups are disjoint, URLs of
\* no platform are in no group, and no group is empty.
C3_GroupsPartition ==
    Returned("group_urls_by_platform") =>
        /\ \A p \in DOMAIN ret :
              /\ ret[p] # <<>>
              /\ ret[p] = UrlsOfPlatform(call.urls, p)
        /\ \A i \in 1..Len(call.urls) :
              LET u == call.urls[i] IN
              IF detect_platform(u) = None
              THEN \A p \in DOMAIN ret : ~InList(u, ret[p])
              ELSE Cardinality({p \in DOMAIN ret : InList(u, ret[p])}) = 1

\* A list with a repeated URL, a URL of another platform and one of none.
C3_Witness ==
    /\ Returned("group_urls_by_platform")
    /\ call.urls = <<FragLever, FragOther, FragLever>>
    /\ DOMAIN ret = {"lever"}
    /\ ret["lever"] = <<FragLever, FragLever>>

\* C4: create_bot builds a GreenhouseApplicationBot exactly for 'greenhouse', a
\* LeverApplicationBot exactly for 'lever' and a JoinApplicationBot for every
\* other platform; a platform without an entry in platform_configs gets a
\* default PlatformConfig named after it, login_url and cookies_file unset.
C4_CreateBot ==
    Returned("create_bot") =>
        /\ (ret.class = "GreenhouseApplicationBot") <=> (call.platform = "greenhouse")
        /\ (ret.class = "LeverApplicationBot") <=> (call.platform = "lever")
        /\ (ret.class = "JoinApplicationBot") <=> (call.platform \notin {"greenhouse", "lever"})
        /\ call.platform \notin DOMAIN call.platform_configs =>
              /\ ret.platform_config.platform_name = call.platform
              /\ ret.platform_config.login_url = None
              /\ ret.platform_config.cookies_file = None

\* 'lever' with the dict of load_all_platforms, which has no lever entry.
C4_Witness ==
    /\ Returned("create_bot")
    /\ call.platform = "lever"
    /\ call.platform_configs = load_all_platforms
    /\ ret.class = "LeverApplicationBot"
    /\ ret.platform_config = PlatformConfig("lever", None, None, {})

-----------------------------------------------------------------------------
(* job_bots/utils.py: the applied-jobs log, a text file                     *)

\* The characters str.strip() removes that the model's strings can hold.
Whitespace == {" ", "\n", "\t", "\r"}

NL == <<"\n">>

\* str.strip()
RECURSIVE Strip(_)
Strip(s) ==
    IF s = <<>> THEN s
    ELSE IF s[1] \in Whitespace THEN Strip(Tail(s))
    ELSE IF s[Len(s)] \in Whitespace THEN Strip(SubSeq(s, 1, Len(s) - 1))
    ELSE s

\* `for line in f` on a text file of this content: the lines, each with its
\* newline, the last one without when the content does not end in a newline.
RECURSIVE FileLines(_)
FileLines(content) ==
    IF content = <<>> THEN <<>>
    ELSE IF \E k \in 1..Len(content) : content[k] = "\n"
         THEN LET k == CHOOSE j \in 1..Len(content) :
                          /\ content[j] = "\n"
                          /\ \A h \in 1..(j - 1) : content[h] # "\n"
              IN  <<SubSeq(content, 1, k)>> \o FileLines(SubSeq(content, k + 1, Len(content)))
         ELSE <<content>>

\* [line.strip() for line in f]
StrippedLines(content) ==
    LET lines == FileLines(content) IN [i \in 1..Len(lines) |-> Strip(lines[i])]

\* A record_applied_job that opens the file with mode "w".
record_applied_job_truncating(file, job_url, io) ==
    IF io = "open_fails" THEN file
    ELSE IF io = "write_fails" THEN [exists |-> TRUE, content |-> <<>>]
    ELSE [exists |-> TRUE, content |-> job_url \o NL]

\* utils.record_applied_job: the file after the call. io is what the file system
\* does: "ok", "open_fails" (mkdir or open raises) or "write_fails" (open in
\* append mode has created the file, the write raises); the exception is logged.
record_applied_job(file, job_url, io) ==
    IF io = "open_fails" THEN file
    ELSE IF io = "write_fails" THEN [exists |-> TRUE, content |-> file.content]
    ELSE [exists |-> TRUE, content |-> file.content \o job_url \o NL]

\* utils.is_already_applied: io_error is an exception while opening or reading.
is_already_applied(file, job_url, io_error) ==
    IF io_error THEN FALSE
    ELSE IF file.exists THEN InList(job_url, StrippedLines(file.content))
    ELSE FALSE

-----------------------------------------------------------------------------
(* The log alone: calls of record_applied_job and is_already_applied        *)

MaxRecords == 2    \* writes of record_applied_job in one behaviour

\* The URLs given to the two functions: plain ones, one that is a prefix of
\* another, one with an inner blank, and ones with surrounding whitespace or
\* an embedded newline.
LogUrls ==
    {<<"a">>, <<"b">>, <<"a", "b">>, <<"a", " ", "b">>,
     <<" ", "a">>, <<"b", "\t">>, <<"a", "\n", "b">>}

IoOutcomes == {"ok", "open_fails", "write_fails"}

InitLog ==
    /\ call = NoCall
    /\ ret = None
    /\ applied_txt \in {[exists |-> e, content |-> <<>>] : e \in BOOLEAN}
    /\ recorded = <<>>
    /\ bot = None
    /\ job_urls = <<>>
    /\ pc = "idle"
    /\ idx = 0
    /\ invoked = <<>>
    /\ last = NoApply
    /\ scraper = NoSearch
    /\ ctx = NoContext

RecordAppliedJob ==
    \E job_url \in LogUrls, io \in IoOutcomes :
        /\ Len(recorded) < MaxRecords
        /\ call' = [op |-> "record_applied_job", done |-> TRUE, job_url |-> job_url, io |-> io]
        /\ ret' = None
        /\ applied_txt' = record_applied_job(applied_txt, job_url, io)
        /\ recorded' = IF io = "ok" THEN Append(recorded, job_url) ELSE recorded
        /\ UNCHANGED <<bot, job_urls, pc, idx, invoked, last, scraper, ctx>>

IsAlreadyApplied ==
    \E job_url \in LogUrls, io_error \in BOOLEAN :
        /\ call' = [op |-> "is_already_applied", done |-> TRUE, job_url |-> job_url,
                    io_error |-> io_error]
        /\ ret' = is_already_applied(applied_txt, job_url, io_error)
        /\ UNCHANGED <<applied_txt, recorded, bot, job_urls, pc, idx, invoked, last, scraper, ctx>>

NextLog == RecordAppliedJob \/ IsAlreadyApplied

SpecLog == InitLog /\ [][NextLog]_vars

-----------------------------------------------------------------------------
(* Claims about the log                                                     *)

\* No leading or trailing whitespace and no embedded newline.
Clean(u) == Strip(u) = u /\ \A i \in 1..Len(u) : u[i] # "\n"

\* The content s begins with the content t.
IsPrefix(t, s) == Len(t) <= Len(s) /\ SubSeq(s, 1, Len(t)) = t

\* v is the stripped form of a line of a URL written so far.
LineOfRecorded(v) ==
    \E i \in 1..Len(recorded) : InList(v, StrippedLines(recorded[i] \o NL))

-----------------------------------------------------------------------------
(* The platform bots: what one apply_to_job call met and did                *)

\* BaseJobApplicationBot.MAX_RETRIES
MAX_RETRIES == 5

\* What an apply_to_job call did, before anything happened: result is "True",
\* "False" or "raise" (an exception left apply_to_job); gets counts the
\* driver.get calls, clicks the clicks on a submit button, record_calls the
\* calls of record_applied_job; caught says that an except clause of the flow
\* ended the call; submits, form_returns and submission_returns hold what
\* _submit_form_with_retry, _handle_application_form and _submit_application
\* returned; read_error and io are what the reading and the writing of
\* applied.txt met; confirmation is what the last look for a confirmation element found.
NewApply(b, job_url, file) ==
    [bot |-> b, job_url |-> job_url, file_before |-> file, result |-> "False",
     gets |-> 0, filled |-> FALSE, clicks |-> 0, record_calls |-> 0,
     caught |-> FALSE, skipped |-> "no", read_error |-> FALSE, io |-> "none",
     submits |-> <<>>,
     form_returns |-> <<>>, confirmation |-> None, submission_returns |-> <<>>]

PyBool(b) == IF b THEN "True" ELSE "False"

\* One iteration of the while loop of _submit_form_with_retry is one of:
\*   "exception"      find_elements, find_element or the click raises
\*   "submitted"      the click is made, _handle_captcha answers False
\*   "captcha"        the click is made, the captcha error is on the page, and
\*                    the refresh and the look-up of the form (if made) succeed
\*   "captcha_lost"   as "captcha", but the refresh or the look-up raises
SubmitEvents == {"exception", "submitted", "captcha", "captcha_lost"}

\* A submit loop that answers True when the captcha error shows after the
\* click that uses up the last retry.
RECURSIVE submit_loop_last_captcha_true(_, _, _, _)
submit_loop_last_captcha_true(script, i, retry_count, clicks) ==
    IF ~(retry_count < MAX_RETRIES)
    THEN [result |-> FALSE, clicks |-> clicks, iterations |-> i - 1]
    ELSE IF script[i] = "exception"
    THEN submit_loop_last_captcha_true(script, i + 1, retry_count + 1, clicks)
    ELSE IF script[i] = "submitted"
    THEN [result |-> TRUE, clicks |-> clicks + 1, iterations |-> i]
    ELSE IF ~(retry_count + 1 < MAX_RETRIES)
    THEN [result |-> TRUE, clicks |-> clicks + 1, iterations |-> i]
    ELSE IF script[i] = "captcha"
    THEN submit_loop_last_captcha_true(script, i + 1, retry_count + 1, clicks + 1)
    ELSE submit_loop_last_captcha_true(script, i + 1, retry_count + 2, clicks + 1)

\* The loop of JoinApplicationBot._submit_form_with_retry from its i-th
\* iteration on: [result, clicks, iterations].
RECURSIVE submit_loop(_, _, _, _)
submit_loop(script, i, retry_count, clicks) ==
    IF ~(retry_count < MAX_RETRIES)
    THEN [result |-> FALSE, clicks |-> clicks, iterations |-> i - 1]
    ELSE IF script[i] = "exception"
    THEN submit_loop(script, i + 1, retry_count + 1, clicks)
    ELSE IF script[i] = "submitted"
    THEN [result |-> TRUE, clicks |-> clicks + 1, iterations |-> i]
    ELSE IF ~(retry_count + 1 < MAX_RETRIES)
    THEN [result |-> FALSE, clicks |-> clicks + 1, iterations |-> i]
    ELSE IF script[i] = "captcha"
    THEN submit_loop(script, i + 1, retry_count + 1, clicks + 1)
    ELSE submit_loop(script, i + 1, retry_count + 2, clicks + 1)

\* JoinApplicationBot._submit_form_with_retry, the page behaving as script says.
submit_form_with_retry(script) == submit_loop(script, 1, 0, 0)

\* A JoinApplicationBot.apply_to_job that records once the initial form is sent.
join_apply_record_early(job_url, file, env) ==
    LET a == NewApply("join", job_url, file)
        s1 == submit_form_with_retry(env.submit1)
        s2 == submit_form_with_retry(env.submit2)
    IN  IF env.get = "raises" THEN [a EXCEPT !.result = "raise", !.gets = 1]
        ELSE IF env.page = "no_form" THEN [a EXCEPT !.gets = 1, !.caught = TRUE]
        ELSE IF env.page = "already_applied"
        THEN [a EXCEPT !.gets = 1, !.skipped = "page", !.record_calls = 1, !.io = env.io]
        ELSE IF env.cover_letter = "fails" THEN [a EXCEPT !.gets = 1, !.caught = TRUE]
        ELSE IF ~s1.result
        THEN [a EXCEPT !.gets = 1, !.clicks = s1.clicks, !.submits = <<FALSE>>]
        ELSE IF env.questions # "ok"
        THEN [a EXCEPT !.gets = 1, !.clicks = s1.clicks, !.submits = <<TRUE>>,
                       !.filled = (env.questions = "handler_raises"),
                       !.record_calls = 1, !.io = env.io, !.caught = TRUE]
        ELSE IF ~s2.result
        THEN [a EXCEPT !.gets = 1, !.clicks = s1.clicks + s2.clicks, !.filled = TRUE,
                       !.record_calls = 1, !.io = env.io, !.submits = <<TRUE, FALSE>>]
        ELSE [a EXCEPT !.gets = 1, !.clicks = s1.clicks + s2.clicks, !.filled = TRUE,
                       !.submits = <<TRUE, TRUE>>, !.record_calls = 1, !.io = env.io, !.result = "True"]

\* JoinApplicationBot.apply_to_job, the browser behaving as env says:
\*   get           "ok" | "raises"          driver.get(job_url), outside the try
\*   page          "no_form" (the look-up of ApplyStep1Form raises),
\*                 "already_applied" (a View/CompleteApplicationLink is in the form),
\*                 "form"
\*   cover_letter  "absent" | "ok" | "fails" (extracting or generating raises)
\*   submit1       the script of the initial form's _submit_form_with_retry
\*   questions     "ok" | "form_missing" | "handler_raises"
\*   submit2       the script of the questions form's _submit_form_with_retry
join_apply_to_job(job_url, file, env) ==
    LET a == NewApply("join", job_url, file)
        s1 == submit_form_with_retry(env.submit1)
        s2 == submit_form_with_retry(env.submit2)
    IN  IF env.get = "raises" THEN [a EXCEPT !.result = "raise", !.gets = 1]
        ELSE IF env.page = "no_form" THEN [a EXCEPT !.gets = 1, !.caught = TRUE]
        ELSE IF env.page = "already_applied"
        THEN [a EXCEPT !.gets = 1, !.skipped = "page", !.record_calls = 1, !.io = env.io]
        ELSE IF env.cover_letter = "fails" THEN [a EXCEPT !.gets = 1, !.caught = TRUE]
        ELSE IF ~s1.result
        THEN [a EXCEPT !.gets = 1, !.clicks = s1.clicks, !.submits = <<FALSE>>]
        ELSE IF env.questions # "ok"
        THEN [a EXCEPT !.gets = 1, !.clicks = s1.clicks, !.submits = <<TRUE>>,
                       !.filled = (env.questions = "handler_raises"), !.caught = TRUE]
        ELSE IF ~s2.result
        THEN [a EXCEPT !.gets = 1, !.clicks = s1.clicks + s2.clicks, !.filled = TRUE,
                       !.submits = <<TRUE, FALSE>>]
        ELSE [a EXCEPT !.gets = 1, !.clicks = s1.clicks + s2.clicks, !.filled = TRUE,
                       !.submits = <<TRUE, TRUE>>, !.record_calls = 1, !.io = env.io, !.result = "True"]

\* GreenhouseApplicationBot._handle_application_form, the page behaving as env says:
\*   fill       "ok" | "raises"   everything before the submit button is looked up
\*   submit     "clicked" | "raises"   the look-up of the submit button and the click
\*   errors     "none" | "shown" | "raises"   the look-up of error elements after it
\*   resubmit   "clicked" | "raises"   the second look-up and click, made when errors are shown
\*   confirm    "present" | "absent" | "raises"   the look-up of confirmation elements
\* The result: [result, filled, clicks, confirmation].
handle_application_form(env) ==
    IF env.fill = "raises"
    THEN [result |-> FALSE, filled |-> TRUE, clicks |-> 0, confirmation |-> None]
    ELSE IF env.submit = "raises"
    THEN [result |-> FALSE, filled |-> TRUE, clicks |-> 0, confirmation |-> None]
    ELSE IF env.errors = "raises"
    THEN [result |-> FALSE, filled |-> TRUE, clicks |-> 1, confirmation |-> None]
    ELSE IF env.errors = "shown" /\ env.resubmit = "raises"
    THEN [result |-> FALSE, filled |-> TRUE, clicks |-> 1, confirmation |-> None]
    ELSE LET clicks == IF env.errors = "shown" THEN 2 ELSE 1 IN
         IF env.confirm = "raises"
         THEN [result |-> FALSE, filled |-> TRUE, clicks |-> clicks, confirmation |-> None]
         ELSE IF env.confirm = "present"
         THEN [result |-> TRUE, filled |-> TRUE, clicks |-> clicks, confirmation |-> "present"]
         ELSE \* line 633: "assume success"
              [result |-> TRUE, filled |-> TRUE, clicks |-> clicks, confirmation |-> "absent"]

\* A GreenhouseApplicationBot.apply_to_job that loads the page before it looks
\* into applied.txt.
greenhouse_apply_get_first(job_url, file, env) ==
    LET a == [NewApply("greenhouse", job_url, file) EXCEPT !.read_error = env.read_error]
        f == handle_application_form(env)
    IN  IF env.get = "raises" THEN [a EXCEPT !.result = "raise", !.gets = 1]
        ELSE IF is_already_applied(file, job_url, env.read_error)
        THEN [a EXCEPT !.skipped = "file", !.gets = 1]
        ELSE IF env.page_applied
        THEN [a EXCEPT !.gets = 1, !.skipped = "page", !.record_calls = 1, !.io = env.io]
        ELSE IF env.listing = "raises" THEN [a EXCEPT !.result = "raise", !.gets = 1]
        ELSE [a EXCEPT !.gets = IF env.listing = "href" THEN 2 ELSE 1,
                       !.filled = f.filled, !.clicks = f.clicks,
                       !.form_returns = <<f.result>>, !.confirmation = f.confirmation,
                       !.record_calls = IF f.result THEN 1 ELSE 0,
                       !.io = IF f.result THEN env.io ELSE "none",
                       !.result = PyBool(f.result)]

\* GreenhouseApplicationBot.apply_to_job, the browser behaving as env says
\* (the fields of handle_application_form and):
\*   read_error    is_already_applied meets an I/O error
\*   get           "ok" | "raises"   driver.get(job_url)
\*   page_applied  _is_already_applied() finds an indicator on the page
\*   listing       what lines 668-686 meet: "not_listing" (the URL is of an
\*                 application form), "no_button", "href" (the apply button's
\*                 href is loaded), "click" (the button is clicked) or "raises"
greenhouse_apply_to_job(job_url, file, env) ==
    LET a == [NewApply("greenhouse", job_url, file) EXCEPT !.read_error = env.read_error]
        f == handle_application_form(env)
    IN  IF is_already_applied(file, job_url, env.read_error)
        THEN [a EXCEPT !.skipped = "file"]
        ELSE IF env.get = "raises" THEN [a EXCEPT !.result = "raise", !.gets = 1]
        ELSE IF env.page_applied
        THEN [a EXCEPT !.gets = 1, !.skipped = "page", !.record_calls = 1, !.io = env.io]
        ELSE IF env.listing = "raises" THEN [a EXCEPT !.result = "raise", !.gets = 1]
        ELSE [a EXCEPT !.gets = IF env.listing = "href" THEN 2 ELSE 1,
                       !.filled = f.filled, !.clicks = f.clicks,
                       !.form_returns = <<f.result>>, !.confirmation = f.confirmation,
                       !.record_calls = IF f.result THEN 1 ELSE 0,
                       !.io = IF f.result THEN env.io ELSE "none",
                       !.result = PyBool(f.result)]

\* LeverApplicationBot._submit_application, the page behaving as sub says:
\*   "pre_errors"    error messages are on the page before the click
\*   "no_button"     the submit button is not found
\*   "post_errors"   error messages are on the page after the click
\*   "indicator"     a success element or a URL with "thanks" shows up in time
\*   "url"           no indicator, the URL holds "thanks" or "confirmation"
\*   "form_gone"     neither, and the submit button is gone
\*   "unconfirmed"   neither, and the submit button is still there
\*   "exception"     a look-up after the click raises
\* The result: [result, clicks].
submit_application(sub) ==
    IF sub \in {"pre_errors", "no_button"} THEN [result |-> FALSE, clicks |-> 0]
    ELSE IF sub \in {"indicator", "url", "form_gone"} THEN [result |-> TRUE, clicks |-> 1]
    ELSE [result |-> FALSE, clicks |-> 1]

SubmissionOutcomes ==
    {"pre_errors", "no_button", "post_errors", "indicator", "url", "form_gone",
     "unconfirmed", "exception"}

\* The already-applied test of LeverApplicationBot.apply_to_job (lines 489-494):
\* a substring test on the whole file; an exception is passed over.
lever_already_applied(file, job_url, read_error) ==
    IF read_error THEN FALSE
    ELSE file.exists /\ Contains(file.content, job_url)

\* LeverApplicationBot.apply_to_job, the browser behaving as env says:
\*   get          "ok" | "raises"   driver.get(job_url), inside the try
\*   read_error   reading applied.txt raises
\*   prepare      "ok" | "raises"   job details, cover letter, the Apply button
\*   steps        "ok" | "false" | "raises"   the seven form filling steps: all
\*                return True, one returns False, one raises
\*   sub          the outcome of _submit_application
lever_apply_to_job(job_url, file, env) ==
    LET a == [NewApply("lever", job_url, file) EXCEPT !.read_error = env.read_error]
        r == submit_application(env.sub)
    IN  IF env.get = "raises" THEN [a EXCEPT !.gets = 1, !.caught = TRUE]
        ELSE IF lever_already_applied(file, job_url, env.read_error)
        THEN [a EXCEPT !.gets = 1, !.skipped = "file"]
        ELSE IF env.prepare = "raises" THEN [a EXCEPT !.gets = 1, !.caught = TRUE]
        ELSE IF env.steps = "false" THEN [a EXCEPT !.gets = 1, !.filled = TRUE]
        ELSE IF env.steps = "raises"
        THEN [a EXCEPT !.gets = 1, !.filled = TRUE, !.caught = TRUE]
        ELSE \* lines 545-553: recorded and True whatever _submit_application returned
             [a EXCEPT !.gets = 1, !.filled = TRUE, !.clicks = r.clicks,
                       !.submission_returns = <<r.result>>, !.record_calls = 1, !.io = env.io,
                       !.result = "True"]

-----------------------------------------------------------------------------
(* What the browser and the file system may do during one apply_to_job      *)

MaxJobs == 2     \* length of job_urls

Bots == {"join", "greenhouse", "lever"}

\* Two job URLs, one a prefix of the other.
JobUrls == {<<"a">>, <<"a", "b">>}

JobLists == UNION {[1..n -> JobUrls] : n \in 0..MaxJobs}

\* applied.txt before the run: absent, or left by an earlier run.
InitialFiles ==
    {[exists |-> FALSE, content |-> <<>>],
     [exists |-> TRUE, content |-> <<"a", "b", "\n">>]}

Scripts(e1, e2, e3) == [i \in 1..MAX_RETRIES |-> IF i = 1 THEN e1 ELSE IF i = 2 THEN e2 ELSE e3]

\* Pages of a join.com form, as scripts of _submit_form_with_retry.
JoinScripts ==
    {Scripts("submitted", "submitted", "submitted"),
     Scripts("captcha", "captcha", "captcha"),
     Scripts("exception", "exception", "exception"),
     Scripts("captcha", "exception", "submitted"),
     Scripts("captcha_lost", "captcha_lost", "captcha")}

JoinEnv(get, page, cover_letter, submit1, questions, submit2, io) ==
    [get |-> get, page |-> page, cover_letter |-> cover_letter, submit1 |-> submit1,
     questions |-> questions, submit2 |-> submit2, io |-> io]

JoinEnvs ==
    LET s0 == Scripts("submitted", "submitted", "submitted") IN
    {JoinEnv("raises", "form", "absent", s0, "ok", s0, "ok"),
     JoinEnv("ok", "no_form", "absent", s0, "ok", s0, "ok"),
     JoinEnv("ok", "form", "fails", s0, "ok", s0, "ok")}
    \cup {JoinEnv("ok", "already_applied", "absent", s0, "ok", s0, io) : io \in IoOutcomes}
    \cup {JoinEnv("ok", "form", cl, s1, q, s2, io) :
            cl \in {"absent", "ok"}, s1 \in JoinScripts,
            q \in {"ok", "form_missing", "handler_raises"}, s2 \in JoinScripts,
            io \in IoOutcomes}

FormEnv(fill, submit, errors, resubmit, confirm) ==
    [fill |-> fill, submit |-> submit, errors |-> errors, resubmit |-> resubmit,
     confirm |-> confirm]

FormEnvs ==
    {FormEnv("raises", "clicked", "none", "clicked", "absent"),
     FormEnv("ok", "raises", "none", "clicked", "absent"),
     FormEnv("ok", "clicked", "raises", "clicked", "absent"),
     FormEnv("ok", "clicked", "shown", "raises", "absent")}
    \cup {FormEnv("ok", "clicked", e, "clicked", c) :
            e \in {"none", "shown"}, c \in {"present", "absent", "raises"}}

GreenhouseEnv(read_error, get, page_applied, listing, form, io) ==
    [read_error |-> read_error, get |-> get, page_applied |-> page_applied,
     listing |-> listing, fill |-> form.fill, submit |-> form.submit,
     errors |-> form.errors, resubmit |-> form.resubmit, confirm |-> form.confirm,
     io |-> io]

GreenhouseEnvs ==
    LET f0 == FormEnv("ok", "clicked", "none", "clicked", "present") IN
    {GreenhouseEnv(re, "raises", FALSE, "not_listing", f0, "ok") : re \in BOOLEAN}
    \cup {GreenhouseEnv(re, "ok", TRUE, "not_listing", f0, io) :
            re \in BOOLEAN, io \in IoOutcomes}
    \cup {GreenhouseEnv(re, "ok", FALSE, "raises", f0, "ok") : re \in BOOLEAN}
    \cup {GreenhouseEnv(re, "ok", FALSE, l, f, io) :
            re \in BOOLEAN, l \in {"not_listing", "no_button", "href", "click"},
            f \in FormEnvs, io \in IoOutcomes}

LeverEnv(get, read_error, prepare, steps, sub, io) ==
    [get |-> get, read_error |-> read_error, prepare |-> prepare, steps |-> steps,
     sub |-> sub, io |-> io]

LeverEnvs ==
    {LeverEnv("raises", FALSE, "ok", "ok", "indicator", "ok")}
    \cup {LeverEnv("ok", re, "raises", "ok", "indicator", "ok") : re \in BOOLEAN}
    \cup {LeverEnv("ok", re, "ok", st, "indicator", "ok") :
            re \in BOOLEAN, st \in {"false", "raises"}}
    \cup {LeverEnv("ok", re, "ok", "ok", sub, io) :
            re \in BOOLEAN, sub \in SubmissionOutcomes, io \in IoOutcomes}

-----------------------------------------------------------------------------
(* login_and_apply_to_jobs of the three bots                                *)

\* A loop whose try does not cover apply_to_job.
greenhouse_loop_unguarded(result) == IF result = "raise" THEN "raised" ELSE "loop"

\* Where the for loop goes after apply_to_job returned or raised: the try/except
\* around each iteration logs the exception and the loop goes on.
join_loop_next(result) == "loop"

greenhouse_loop_next(result) == "loop"

lever_loop_next(result) == "loop"

\* The file after an apply_to_job call that did what `a` says.
FileAfter(a, file) ==
    IF a.record_calls > 0 THEN record_applied_job(file, a.job_url, a.io) ELSE file

InitBots ==
    /\ call = NoCall
    /\ ret = None
    /\ applied_txt \in InitialFiles
    /\ recorded = <<>>
    /\ bot \in Bots
    /\ job_urls \in JobLists
    /\ pc = "start"
    /\ idx = 0
    /\ invoked = <<>>
    /\ last = NoApply
    /\ scraper = NoSearch
    /\ ctx = NoContext

\* The statements before the for loop. JoinApplicationBot loads the login page
\* and the cookies and refreshes, outside any try; the other two bots go
\* straight to the loop.
Login ==
    /\ pc = "start"
    /\ \E ok \in BOOLEAN :
          pc' = IF bot = "join" /\ ~ok THEN "raised" ELSE "loop"
    /\ UNCHANGED <<call, ret, applied_txt, recorded, bot, job_urls, idx, invoked, last, scraper, ctx>>

\* What one iteration leaves, apply_to_job having done what `a` says.
Iterate(a, next_pc) ==
    /\ last' = a
    /\ applied_txt' = FileAfter(a, applied_txt)
    /\ recorded' = IF a.record_calls > 0 /\ a.io = "ok"
                   THEN Append(recorded, a.job_url) ELSE recorded
    /\ invoked' = Append(invoked, a.job_url)
    /\ idx' = idx + 1
    /\ pc' = next_pc
    /\ UNCHANGED <<call, ret, bot, job_urls, scraper, ctx>>

\* One iteration of JoinApplicationBot.login_and_apply_to_jobs.
JoinIteration ==
    /\ pc = "loop" /\ bot = "join" /\ idx < Len(job_urls)
    /\ \E env \in JoinEnvs :
          LET a == join_apply_to_job(job_urls[idx + 1], applied_txt, env)
          IN  Iterate(a, join_loop_next(a.result))

\* One iteration of GreenhouseApplicationBot.login_and_apply_to_jobs.
GreenhouseIteration ==
    /\ pc = "loop" /\ bot = "greenhouse" /\ idx < Len(job_urls)
    /\ \E env \in GreenhouseEnvs :
          LET a == greenhouse_apply_to_job(job_urls[idx + 1], applied_txt, env)
          IN  Iterate(a, greenhouse_loop_next(a.result))

\* One iteration of LeverApplicationBot.login_and_apply_to_jobs.
LeverIteration ==
    /\ pc = "loop" /\ bot = "lever" /\ idx < Len(job_urls)
    /\ \E env \in LeverEnvs :
          LET a == lever_apply_to_job(job_urls[idx + 1], applied_txt, env)
          IN  Iterate(a, lever_loop_next(a.result))

\* The for loop is exhausted: login_and_apply_to_jobs returns.
Return ==
    /\ pc = "loop" /\ idx = Len(job_urls)
    /\ pc' = "returned"
    /\ UNCHANGED <<call, ret, applied_txt, recorded, bot, job_urls, idx, invoked, last, scraper, ctx>>

NextBots == Login \/ JoinIteration \/ GreenhouseIteration \/ LeverIteration \/ Return

SpecBots == InitBots /\ [][NextBots]_vars

-----------------------------------------------------------------------------
(* Claims about the platform bots                                           *)

\* The last apply_to_job call was made by bot b.
Applied(b) == last.bot = b

C7_EveryUrlOnce ==
    /\ idx <= Len(job_urls)
    /\ invoked = SubSeq(job_urls, 1, idx)
    /\ pc = "returned" => invoked = job_urls
    /\ pc = "raised" => (bot = "join" /\ idx = 0 /\ last = NoApply)

\* A run of two URLs that returned although the last apply_to_job raised.
C7_Witness ==
    /\ pc = "returned"
    /\ Len(job_urls) = 2 /\ invoked = job_urls
    /\ last.result = "raise"

\* C8: LeverApplicationBot.apply_to_job returns True only if _submit_application
\* returned True for that job.
C8_LeverTrueOnlyIfSubmitted ==
    (Applied("lever") /\ last.result = "True") => last.submission_returns = <<TRUE>>

\* C9: GreenhouseApplicationBot._handle_application_form returns True only if,
\* after the last submit click, a confirmation element is on the page.
C9_FormTrueOnlyIfConfirmed ==
    (Applied("greenhouse") /\ last.form_returns = <<TRUE>>)
        => last.confirmation = "present"

-----------------------------------------------------------------------------
(* GoogleSearchScraper: the requests search, the Selenium search and search *)

\* The end of extract_urls_from_html: the filtered URLs of one result page,
\* deduplicated in their order.
RECURSIVE unique_urls(_)
unique_urls(filtered) ==
    IF filtered = <<>> THEN <<>>
    ELSE LET n == Len(filtered)
             unique == unique_urls(SubSeq(filtered, 1, n - 1))
         IN  IF InList(filtered[n], unique) THEN unique ELSE Append(unique, filtered[n])

\* A search(query, domain_filter, num_pages) call on a scraper built with
\* max_retries, at the start of search_with_requests.  page and attempt are
\* the loop variables and all_urls the list of the search_with_* method that
\* runs; urls is what search_with_requests returned, selenium_urls what
\* search_with_selenium returned, result what search returned.  History of
\* the search_with_* method that runs: requested holds the pages it asked
\* Google for, exhausted the pages whose max_retries attempts all failed.
NewSearch(num_pages, max_retries) ==
    [phase |-> IF num_pages > 0 THEN "requests" ELSE "requests_returned",
     num_pages |-> num_pages, max_retries |-> max_retries,
     page |-> 0, attempt |-> 0, all_urls |-> <<>>,
     requested |-> {}, exhausted |-> {},
     urls |-> <<>>, selenium_ran |-> FALSE, selenium_urls |-> <<>>, result |-> <<>>]

\* `return all_urls` of a search_with_* method.
return_all_urls(s, returned) == [s EXCEPT !.phase = returned]

\* The attempt loop of a page was left: the page loop takes the next page,
\* or ends and the method returns.
next_page(s, returned) ==
    IF s.page + 1 < s.num_pages
    THEN [s EXCEPT !.page = @ + 1, !.attempt = 0]
    ELSE return_all_urls(s, returned)

\* The attempt loop takes its next attempt, or ends when attempt was the last.
next_attempt(s, returned) ==
    IF s.attempt + 1 < s.max_retries
    THEN [s EXCEPT !.attempt = @ + 1]
    ELSE next_page(s, returned)

\* The test at the end of the body of the attempt loop.
max_retries_reached(s, returned) ==
    IF s.attempt = s.max_retries - 1
    THEN return_all_urls(s, returned)
    ELSE next_attempt(s, returned)

\* History: the attempt that runs asks for s.page, and it is a failed attempt.
Failed(s) ==
    [s EXCEPT !.requested = @ \cup {s.page},
              !.exhausted = IF s.attempt = s.max_retries - 1 THEN @ \cup {s.page} ELSE @]

\* One iteration of the attempt loop of search_with_requests.  outcome.kind:
\*   "ok"       status 200, no CAPTCHA, outcome.filtered are the URLs of the page
\*   "captcha"  status 200 and _detect_captcha
\*   "status"   another status code
\*   "error"    requests.get or the extraction raises
requests_attempt(s, outcome) ==
    IF outcome.kind = "ok"
    THEN next_page([s EXCEPT !.requested = @ \cup {s.page},
                             !.all_urls = @ \o unique_urls(outcome.filtered)],
                   "requests_returned")
    ELSE IF outcome.kind = "captcha"
    THEN next_attempt(Failed(s), "requests_returned")
    ELSE max_retries_reached(Failed(s), "requests_returned")

\* One iteration of the attempt loop of search_with_selenium.  outcome.kind:
\*   "ok"                 the page is loaded, no CAPTCHA
\*   "captcha"            _detect_captcha, the browser is restarted
\*   "captcha_no_restart" _detect_captcha, the restart raises a WebDriverException,
\*                        the restart of the except clause succeeds
\*   "error"              a WebDriverException, the browser is restarted
\*   "abort"              an exception that reaches the outer except clause
selenium_attempt(s, outcome) ==
    IF outcome.kind = "ok"
    THEN next_page([s EXCEPT !.requested = @ \cup {s.page},
                             !.all_urls = @ \o unique_urls(outcome.filtered)],
                   "selenium_returned")
    ELSE IF outcome.kind = "captcha"
    THEN next_attempt(Failed(s), "selenium_returned")
    ELSE IF outcome.kind = "abort"
    THEN return_all_urls(Failed(s), "selenium_returned")
    ELSE max_retries_reached(Failed(s), "selenium_returned")

\* The test of search that starts the Selenium search.
fewer_than_5_urls(urls, num_pages) == Len(urls) < 5 /\ num_pages > 0

\* The for loop of search with every Selenium URL appended.
RECURSIVE combine_all(_, _, _)
combine_all(urls, selenium_urls, i) ==
    IF i > Len(selenium_urls) THEN urls
    ELSE combine_all(Append(urls, selenium_urls[i]), selenium_urls, i + 1)

\* The for loop of search from its i-th Selenium URL on; seen holds the
\* elements of urls at every iteration.
RECURSIVE combine(_, _, _)
combine(urls, selenium_urls, i) ==
    IF i > Len(selenium_urls) THEN urls
    ELSE IF ~InList(selenium_urls[i], urls)
    THEN combine(Append(urls, selenium_urls[i]), selenium_urls, i + 1)
    ELSE combine(urls, selenium_urls, i + 1)

MaxPages == 3
RetryArgs == {1, 3}
U1 == <<"u">>
U2 == <<"v">>

\* What the result pages hold, before the deduplication.
PageContents == {<<>>, <<U1>>, <<U2>>, <<U1, U2>>, <<U1, U1>>}

Outcome(kind, filtered) == [kind |-> kind, filtered |-> filtered]

RequestsOutcomes ==
    {Outcome(k, <<>>) : k \in {"captcha", "status", "error"}}
        \cup {Outcome("ok", f) : f \in PageContents}

SeleniumOutcomes ==
    {Outcome(k, <<>>) : k \in {"captcha", "captcha_no_restart", "error", "abort"}}
        \cup {Outcome("ok", f) : f \in PageContents}

InitSearch ==
    /\ call = NoCall
    /\ ret = None
    /\ applied_txt = [exists |-> FALSE, content |-> <<>>]
    /\ recorded = {}
    /\ bot = None
    /\ job_urls = <<>>
    /\ pc = "idle"
    /\ idx = 0
    /\ invoked = <<>>
    /\ last = NoApply
    /\ scraper \in {NewSearch(n, m) : n \in 0..MaxPages, m \in RetryArgs}
    /\ ctx = NoContext

OtherThanScraper == <<call, ret, applied_txt, recorded, bot, job_urls, pc, idx, invoked, last, ctx>>

\* search_with_requests makes one attempt.
SearchWithRequests ==
    /\ scraper.phase = "requests"
    /\ \E outcome \in RequestsOutcomes : scraper' = requests_attempt(scraper, outcome)
    /\ UNCHANGED OtherThanScraper

\* search_with_requests has returned: search tests its result and either
\* returns it or starts search_with_selenium, whose _initialize_selenium may raise.
SearchFallback ==
    /\ scraper.phase = "requests_returned"
    /\ LET s == [scraper EXCEPT !.urls = scraper.all_urls]
       IN  IF fewer_than_5_urls(s.urls, s.num_pages)
           THEN \E initialized \in BOOLEAN :
                    scraper' = [s EXCEPT !.selenium_ran = TRUE,
                                         !.phase = IF initialized THEN "selenium"
                                                   ELSE "selenium_returned",
                                         !.page = 0, !.attempt = 0, !.all_urls = <<>>,
                                         !.requested = {}, !.exhausted = {}]
           ELSE scraper' = [s EXCEPT !.phase = "done", !.result = s.urls]
    /\ UNCHANGED OtherThanScraper

\* search_with_selenium makes one attempt.
SearchWithSelenium ==
    /\ scraper.phase = "selenium"
    /\ \E outcome \in SeleniumOutcomes : scraper' = selenium_attempt(scraper, outcome)
    /\ UNCHANGED OtherThanScraper

\* search_with_selenium has returned: search combines the two results and returns.
SearchCombine ==
    /\ scraper.phase = "selenium_returned"
    /\ scraper' = [scraper EXCEPT !.selenium_urls = scraper.all_urls,
                                  !.result = combine(scraper.urls, scraper.all_urls, 1),
                                  !.phase = "done"]
    /\ UNCHANGED OtherThanScraper

NextSearch == SearchWithRequests \/ SearchFallback \/ SearchWithSelenium \/ SearchCombine

SpecSearch == InitSearch /\ [][NextSearch]_vars

-----------------------------------------------------------------------------
(* Claims about GoogleSearchScraper.search                                   *)

Range(s) == {s[i] : i \in 1..Len(s)}

NoDuplicates(s) == \A i, j \in 1..Len(s) : s[i] = s[j] => i = j

\* The index of the first occurrence of x in s.
FirstIndex(s, x) == CHOOSE i \in 1..Len(s) : s[i] = x /\ \A j \in 1..(i - 1) : s[j] # x

\* C11: search returns a list of unique URLs: whatever the requests search
\* and the Selenium search met, no URL occurs more than once in the list
\* search returns.
C11_ResultUnique ==
    scraper.phase = "done" => NoDuplicates(scraper.result)

\* What search appended to the requests URLs.
Appended == SubSeq(scraper.result, Len(scraper.urls) + 1, Len(scraper.result))

\* C12: search runs the Selenium search if and only if the requests search
\* returned fewer than 5 URLs and num_pages > 0; the result is then the
\* requests URLs in their order, followed by the Selenium URLs that are not
\* already present, each once, in the order of their first occurrence in the
\* Selenium result; otherwise the result is exactly the requests result.
C12_SeleniumFallback ==
    scraper.phase = "done" =>
        /\ scraper.selenium_ran <=> (Len(scraper.urls) < 5 /\ scraper.num_pages > 0)
        /\ ~scraper.selenium_ran => scraper.result = scraper.urls
        /\ scraper.selenium_ran =>
            /\ Len(scraper.result) >= Len(scraper.urls)
            /\ SubSeq(scraper.result, 1, Len(scraper.urls)) = scraper.urls
            /\ Range(Appended) = Range(scraper.selenium_urls) \ Range(scraper.urls)
            /\ NoDuplicates(Appended)
            /\ \A i, j \in 1..Len(Appended) :
                   i < j => FirstIndex(scraper.selenium_urls, Appended[i])
                                < FirstIndex(scraper.selenium_urls, Appended[j])

\* The Selenium search ran after a requests search that found something, and
\* it returned a URL that search dropped, twice a URL that search appended
\* once, and search has returned.
C12_Witness ==
    /\ scraper.phase = "done"
    /\ scraper.selenium_ran
    /\ scraper.urls = <<U1>>
    /\ scraper.selenium_urls = <<U2, U1, U2>>
    /\ scraper.result = <<U1, U2>>

\* C18: in search_with_requests and in search_with_selenium a page is
\* attempted at most max_retries times, and once all max_retries attempts of
\* a page have failed no later page is requested: the method returns what it
\* has collected.
C18_StopsAtFailedPage ==
    scraper.phase \in {"requests", "requests_returned", "selenium", "selenium_returned"} =>
        /\ scraper.attempt < scraper.max_retries
        /\ \A p \in scraper.exhausted : \A q \in scraper.requested : q <= p

-----------------------------------------------------------------------------
(* BaseJobApplicationBot: the driver life cycle of a bot used as a context  *)
(* manager, and search_jobs                                                 *)

\* self.driver is <<>> for None and <<n>> for the n-th Chrome object that
\* uc.Chrome created.  A bot after __init__: created counts the Chrome
\* objects, stealth holds those _apply_advanced_stealth went through,
\* quit_calls lists the drivers quit() was called on, in call order.
\* enter, body and exit hold what the last __enter__, with body and __exit__ did.
NewContext ==
    [pc |-> "new", driver |-> <<>>, created |-> 0, stealth |-> {}, quit_calls |-> <<>>,
     uses |-> 0, enter_raised |-> FALSE,
     body |-> [search_jobs |-> [raised |-> "", urls |-> <<>>, finder |-> FALSE,
                                fallback |-> FALSE],
               raised |-> FALSE],
     exit |-> [driver |-> <<>>, calls |-> <<>>, raised |-> FALSE]]

\* The except clause of an attempt of _initialize_driver: a driver that is
\* set is quit (whatever quit() raises is swallowed) and forgotten.
discard_driver(c) ==
    IF c.driver # <<>>
    THEN [c EXCEPT !.quit_calls = Append(@, c.driver[1]), !.driver = <<>>]
    ELSE c

\* _initialize_driver from its attempt (0, 1, 2) on; script[attempt] is
\*   "ok"              uc.Chrome, WebDriverWait and _apply_advanced_stealth succeed
\*   "chrome_raises"   uc.Chrome raises
\*   "stealth_raises"  uc.Chrome succeeds, _apply_advanced_stealth raises
RECURSIVE initialize_driver(_, _, _)
initialize_driver(script, attempt, c) ==
    LET made == [c EXCEPT !.created = @ + 1, !.driver = <<c.created + 1>>]
        failed == IF script[attempt] = "chrome_raises"
                  THEN discard_driver(c)
                  ELSE discard_driver(made)
    IN  IF script[attempt] = "ok"
        THEN [made EXCEPT !.stealth = @ \cup {c.created + 1}, !.enter_raised = FALSE]
        ELSE IF attempt < 3 - 1
        THEN initialize_driver(script, attempt + 1, failed)
        ELSE [failed EXCEPT !.enter_raised = TRUE]

\* The driver calls of the try block of _quit_driver, the driver having one
\* window; cleanup says which call raises: an Exception in "execute_script",
\* "delete_all_cookies" or "close", a KeyboardInterrupt in "interrupt", none in "ok".
cleanup_calls(cleanup) ==
    IF cleanup \in {"execute_script", "interrupt"} THEN <<"execute_script">>
    ELSE IF cleanup = "delete_all_cookies" THEN <<"execute_script", "delete_all_cookies">>
    ELSE <<"execute_script", "delete_all_cookies", "window_handles", "switch_to.window", "close">>

OnDriver(driver, names) == [i \in 1..Len(names) |-> <<driver[1], names[i]>>]

\* The drivers that the calls call quit() on.
QuitTargets(calls) ==
    LET quits == SelectSeq(calls, LAMBDA c : c[2] = "quit")
    IN  [i \in 1..Len(quits) |-> quits[i][1]]

\* _quit_driver with the quit() call inside the try block.
quit_driver_in_try(driver, cleanup, quit_raises) ==
    IF driver = <<>>
    THEN [calls |-> <<>>, raised |-> FALSE]
    ELSE IF cleanup = "ok"
    THEN [calls |-> OnDriver(driver, cleanup_calls(cleanup) \o <<"quit">>), raised |-> FALSE]
    ELSE [calls |-> OnDriver(driver, cleanup_calls(cleanup)), raised |-> cleanup = "interrupt"]

\* _quit_driver: [calls, raised], calls being the <<driver, method>> calls made.
quit_driver(driver, cleanup, quit_raises) ==
    IF driver = <<>>
    THEN [calls |-> <<>>, raised |-> FALSE]
    ELSE [calls |-> OnDriver(driver, cleanup_calls(cleanup) \o <<"quit">>),
          raised |-> quit_raises \/ cleanup = "interrupt"]

\* GoogleSearchScraper.__init__ called with the keyword arguments kwargs.
GoogleSearchScraperParams == {"proxy_list", "max_retries", "headless", "driver_path"}

GoogleSearchScraper(kwargs) ==
    IF kwargs \subseteq GoogleSearchScraperParams THEN "GoogleSearchScraper" ELSE "TypeError"

\* The methods of GoogleSearchScraper.
GoogleSearchScraperMethods ==
    {"_get_random_delay", "_get_headers", "_get_current_proxy", "_initialize_selenium",
     "_quit_selenium", "_detect_captcha", "extract_urls_from_html", "search_with_requests",
     "search_with_selenium", "_simulate_scrolling", "search"}

\* scraper.name(...): the exception raised, or "" when the method returns;
\* raises says that the method, if it exists, raises.
CallMethod(name, raises) ==
    IF name \notin GoogleSearchScraperMethods THEN "AttributeError"
    ELSE IF raises THEN "Exception"
    ELSE ""

\* load_proxies_from_file: a missing file gives no proxy, an error other
\* than FileNotFoundError leaves the function.
load_proxies_from_file(file) ==
    [raised |-> file.state = "unreadable",
     proxies |-> IF file.state = "readable" THEN file.proxies ELSE <<>>]

\* The try block of search_jobs: raised is "" when it returns the URLs the
\* scraper found, else the exception that left it; finder says that a
\* ProxyFinder was asked for proxies.
advanced_scraper(env) ==
    LET loaded == load_proxies_from_file(env.proxies_file)
        finds == loaded.proxies = <<>> /\ ~env.HEADLESS
        scraper_obj == GoogleSearchScraper({"proxy_list", "use_selenium", "use_stealth", "headless"})
    IN  IF loaded.raised THEN [raised |-> "Exception", finder |-> FALSE]
        ELSE IF finds /\ env.finder_raises THEN [raised |-> "Exception", finder |-> TRUE]
        ELSE IF scraper_obj = "TypeError" THEN [raised |-> "TypeError", finder |-> finds]
        ELSE [raised |-> CallMethod("search_jobs", env.search_raises), finder |-> finds]

\* The except clause of search_jobs: "" when it returns the URLs the basic
\* scraper found, else the exception that leaves search_jobs.
basic_scraper(env) ==
    IF GoogleSearchScraper({"use_selenium", "use_stealth"}) = "TypeError"
    THEN "TypeError"
    ELSE CallMethod("search_jobs", env.basic_search_raises)

\* BaseJobApplicationBot.search_jobs, the world behaving as env says:
\* raised is "" when search_jobs returns the list urls, else the exception
\* that leaves search_jobs; fallback says that the except clause ran.
search_jobs(env) ==
    LET adv == advanced_scraper(env)
        basic == basic_scraper(env)
    IN  IF adv.raised = ""
        THEN [raised |-> "", urls |-> env.found, finder |-> adv.finder,
              fallback |-> FALSE]
        ELSE [raised |-> basic,
              urls |-> IF basic = "" THEN env.found_basic ELSE <<>>,
              finder |-> adv.finder, fallback |-> TRUE]

MaxUses == 2

\* What search_jobs can meet: working_proxies.txt, the HEADLESS variable,
\* the proxy finder, and what the two scrapers would find.
ProxyFiles ==
    {[state |-> "missing", proxies |-> <<>>], [state |-> "unreadable", proxies |-> <<>>],
     [state |-> "readable", proxies |-> <<>>], [state |-> "readable", proxies |-> <<"p">>]}

SearchJobsEnvs ==
    [proxies_file : ProxyFiles, HEADLESS : BOOLEAN, finder_raises : BOOLEAN,
     search_raises : BOOLEAN, found : {<<U1>>},
     basic_search_raises : BOOLEAN, found_basic : {<<U2>>}]

InitOutcomes == {"ok", "chrome_raises", "stealth_raises"}

CleanupOutcomes == {"ok", "execute_script", "delete_all_cookies", "close", "interrupt"}

InitContext ==
    /\ call = NoCall
    /\ ret = None
    /\ applied_txt = [exists |-> FALSE, content |-> <<>>]
    /\ recorded = {}
    /\ bot = None
    /\ job_urls = <<>>
    /\ pc = "idle"
    /\ idx = 0
    /\ invoked = <<>>
    /\ last = NoApply
    /\ scraper = NoSearch
    /\ ctx = NewContext

OtherThanCtx == <<call, ret, applied_txt, recorded, bot, job_urls, pc, idx, invoked, last, scraper>>

\* `with bot:` calls __enter__, which returns or raises.
Enter ==
    /\ ctx.pc \in {"new", "exited"}
    /\ ctx.uses < MaxUses
    /\ \E script \in [0..2 -> InitOutcomes] :
           LET c == initialize_driver(script, 0, [ctx EXCEPT !.uses = @ + 1])
           IN  ctx' = [c EXCEPT !.pc = IF c.enter_raised THEN "enter_raised" ELSE "body"]
    /\ UNCHANGED OtherThanCtx

\* The body of the with statement calls search_jobs; an exception of
\* search_jobs leaves the body unless the body catches it.
SearchJobs ==
    /\ ctx.pc = "body"
    /\ \E env \in SearchJobsEnvs, catches \in BOOLEAN :
           LET r == search_jobs(env)
           IN  ctx' = [ctx EXCEPT !.pc = "body_left",
                                  !.body = [search_jobs |-> r,
                                            raised |-> r.raised # "" /\ ~catches]]
    /\ UNCHANGED OtherThanCtx

\* __exit__: the with statement calls it when the body is left, normally or
\* by an exception; a caller can also call it on a bot whose __enter__ has
\* not returned.
Exit ==
    /\ ctx.pc \in {"body_left", "new", "enter_raised"}
    /\ \E cleanup \in CleanupOutcomes, quit_raises \in BOOLEAN :
           LET q == quit_driver(ctx.driver, cleanup, quit_raises)
           IN  ctx' = [ctx EXCEPT !.pc = "exited",
                                  !.exit = [driver |-> ctx.driver, calls |-> q.calls,
                                            raised |-> q.raised],
                                  !.quit_calls = @ \o QuitTargets(q.calls)]
    /\ UNCHANGED OtherThanCtx

NextContext == Enter \/ SearchJobs \/ Exit

SpecContext == InitContext /\ [][NextContext]_vars

-----------------------------------------------------------------------------
(* Claims about BaseJobApplicationBot                                        *)

\* C13: search_jobs returns a list of job URLs: when the proxy-enabled
\* scraper path raises an exception, the basic scraper's result is returned
\* and no exception leaves search_jobs.
C13_SearchJobsReturnsList ==
    ctx.pc = "body_left" => ctx.body.search_jobs.raised = ""

\* The calls of calls that call the method name.
CallsOf(calls, name) == {i \in 1..Len(calls) : calls[i][2] = name}

\* C14: __enter__ returns only with an initialized driver (a Chrome object
\* that went through the stealth set-up and was not quit), and __exit__
\* calls quit() exactly once, on the driver the bot holds, whether or not the
\* body raised and whether or not the clean-up before quit() raised, all its
\* calls going to that driver; with no driver set __exit__ makes no driver call.
C14_ContextManager ==
    /\ ctx.pc = "body" =>
        /\ ctx.driver = <<ctx.created>>
        /\ ctx.created > 0
        /\ ctx.created \in ctx.stealth
        /\ ~InList(ctx.created, ctx.quit_calls)
    /\ ctx.pc = "exited" =>
        IF ctx.exit.driver = <<>>
        THEN ctx.exit.calls = <<>>
        ELSE /\ Cardinality(CallsOf(ctx.exit.calls, "quit")) = 1
             /\ \A i \in 1..Len(ctx.exit.calls) : ctx.exit.calls[i][1] = ctx.exit.driver[1]

\* The body of the with statement raised, and in __exit__ the first call of
\* the clean-up raised: quit() was still called on the driver.
C14_Witness ==
    /\ ctx.pc = "exited"
    /\ ctx.body.raised
    /\ ctx.exit.driver # <<>>
    /\ ctx.exit.calls = <<<<ctx.exit.driver[1], "execute_script">>, <<ctx.exit.driver[1], "quit">>>>
    /\ ~ctx.exit.raised

-----------------------------------------------------------------------------
(* JoinApplicationBot: _submit_form_with_retry and the question handlers     *)

\* The keyword of the English question, as written in join_bot.py and main.py.
LEVEL_OF_PROFICIENCY_IN_ENGLISH ==
    <<"l", "e", "v", "e", "l", " ", "o", "f", " ", "p", "r", "o", "f", "i", "c", "i", "e", "n", "c", "y", " ", "i", "n", " ", "E", "n", "g", "l", "i", "s", "h">>

\* The keyword of the questions about any language.
LEVEL_OF_PROFICIENCY_IN ==
    <<"l", "e", "v", "e", "l", " ", "o", "f", " ", "p", "r", "o", "f", "i", "c", "i", "e", "n", "c", "y", " ", "i", "n">>

\* The question_handlers dict of _handle_application_questions, in its
\* declaration order: the keyword, the kind of handler (_handle_yes_no or
\* _handle_text_input) and the field of the config the handler answers with.
question_handlers ==
    <<      [keyword |-> <<"r", "e", "s", "i", "d", "e", " ", "i", "n">>,
       kind |-> "yes_no", value |-> "reside_in_barcelona"],
      [keyword |-> <<"c", "u", "r", "r", "e", "n", "t", "l", "y", " ", "l", "e", "g", "a", "l", "l", "y", " ", "p", "e", "r", "m", "i", "t", "t", "e", "d">>,
       kind |-> "yes_no", value |-> "reside_in_barcelona"],
      [keyword |-> <<"a", "v", "a", "i", "l", "a", "b", "l", "e", " ", "t", "o", " ", "s", "t", "a", "r", "t">>,
       kind |-> "text", value |-> "start_date"],
      [keyword |-> <<"e", "x", "p", "e", "c", "t", "e", "d", " ", "y", "e", "a", "r", "l", "y", " ", "c", "o", "m", "p", "e", "n", "s", "a", "t", "i", "o", "n">>,
       kind |-> "text", value |-> "expected_compensation"],
      [keyword |-> LEVEL_OF_PROFICIENCY_IN_ENGLISH,
       kind |-> "text", value |-> "english_proficiency"],
      [keyword |-> LEVEL_OF_PROFICIENCY_IN,
       kind |-> "text", value |-> "german_proficiency"],
      [keyword |-> <<"r", "e", "q", "u", "i", "r", "e", " ", "s", "p", "o", "n", "s", "o", "r", "s", "h", "i", "p">>,
       kind |-> "yes_no", value |-> "require_sponsorship"],
      [keyword |-> <<"y", "e", "a", "r", "s", " ", "o", "f", " ", "w", "o", "r", "k", " ", "e", "x", "p", "e", "r", "i", "e", "n", "c", "e">>,
       kind |-> "text", value |-> "react_experience"],
      [keyword |-> <<"c", "u", "r", "r", "e", "n", "t", "l", "y", " ", "l", "i", "v", "e">>,
       kind |-> "text", value |-> "current_city"],
      [keyword |-> <<"c", "o", "m", "f", "o", "r", "t", "a", "b", "l", "e", " ", "w", "o", "r", "k", "i", "n", "g", " ", "i", "n", " ", "a", " ", "r", "e", "m", "o", "t", "e">>,
       kind |-> "text", value |-> "remotely_available"]
    >>

\* The if/elif chain of the legacy flow of main.py, in its order: the
\* keywords of a branch and the key of config_data the branch answers with.
legacy_branches ==
    <<      [keywords |-> {<<"r", "e", "s", "i", "d", "e", " ", "i", "n">>,
                      <<"c", "u", "r", "r", "e", "n", "t", "l", "y", " ", "l", "e", "g", "a", "l", "l", "y", " ", "p", "e", "r", "m", "i", "t", "t", "e", "d">>},
       value |-> "reside_in_barcelona"],
      [keywords |-> {<<"a", "v", "a", "i", "l", "a", "b", "l", "e", " ", "t", "o", " ", "s", "t", "a", "r", "t">>,
                      <<"a", "v", "a", "i", "l", "a", "b", "l", "e", " ", "t", "o", " ", "s", "t", "a", "r", "t", " ", "w", "o", "r", "k", "i", "n", "g">>,
                      <<"e", "a", "r", "l", "i", "e", "s", "t", " ", "d", "a", "t", "e", " ", "y", "o", "u", " ", "c", "o", "u", "l", "d", " ", "s", "t", "a", "r", "t">>},
       value |-> "start_date"],
      [keywords |-> {<<"e", "x", "p", "e", "c", "t", "e", "d", " ", "y", "e", "a", "r", "l", "y", " ", "c", "o", "m", "p", "e", "n", "s", "a", "t", "i", "o", "n">>,
                      <<"s", "a", "l", "a", "r", "y", " ", "r", "a", "n", "g", "e">>},
       value |-> "expected_compensation"],
      [keywords |-> {LEVEL_OF_PROFICIENCY_IN_ENGLISH},
       value |-> "english_proficiency"],
      [keywords |-> {LEVEL_OF_PROFICIENCY_IN},
       value |-> "german_proficiency"],
      [keywords |-> {<<"r", "e", "q", "u", "i", "r", "e", " ", "s", "p", "o", "n", "s", "o", "r", "s", "h", "i", "p", " ", "f", "o", "r", " ", "e", "m", "p", "l", "o", "y", "m", "e", "n", "t", " ", "v", "i", "s", "a", " ", "s", "t", "a", "t", "u", "s">>},
       value |-> "require_sponsorship"],
      [keywords |-> {<<"y", "e", "a", "r", "s", " ", "o", "f", " ", "w", "o", "r", "k", " ", "e", "x", "p", "e", "r", "i", "e", "n", "c", "e", " ", "i", "n">>},
       value |-> "react_experience"],
      [keywords |-> {<<"c", "u", "r", "r", "e", "n", "t", "l", "y", " ", "l", "i", "v", "e">>,
                      <<"c", "u", "r", "r", "e", "n", "t", "l", "y", " ", "l", "o", "c", "a", "t", "e", "d">>},
       value |-> "current_city"],
      [keywords |-> {<<"c", "o", "m", "f", "o", "r", "t", "a", "b", "l", "e", " ", "w", "o", "r", "k", "i", "n", "g", " ", "i", "n", " ", "a", " ", "r", "e", "m", "o", "t", "e">>},
       value |-> "remotely_available"]
    >>

\* The inner for loop of _handle_application_questions from the i-th handler
\* on: the config fields the question is answered with, <<>> when no keyword
\* is in question_text.
RECURSIVE first_handler(_, _)
first_handler(question_text, i) ==
    IF i > Len(question_handlers) THEN <<>>
    ELSE IF Contains(question_text, question_handlers[i].keyword)
    THEN <<question_handlers[i].value>>
    ELSE first_handler(question_text, i + 1)

\* The question loop of _handle_application_questions from its i-th question
\* on; the look-up of the elements of question number fails raises, which
\* ends the method.
RECURSIVE questions_loop(_, _, _, _)
questions_loop(questions, fails, i, answers) ==
    IF i > Len(questions) THEN [answers |-> answers, raised |-> FALSE]
    ELSE IF i = fails THEN [answers |-> answers, raised |-> TRUE]
    ELSE questions_loop(questions, fails, i + 1,
                        Append(answers, first_handler(Lower(questions[i]), 1)))

\* JoinApplicationBot._handle_application_questions on a form whose questions
\* show the texts questions.
handle_application_questions(questions, fails) == questions_loop(questions, fails, 1, <<>>)

\* The legacy chain from its i-th branch on, for the question text as shown.
RECURSIVE legacy_branch(_, _)
legacy_branch(question_text, i) ==
    IF i > Len(legacy_branches) THEN <<>>
    ELSE IF \E k \in legacy_branches[i].keywords : Contains(question_text, k)
    THEN <<legacy_branches[i].value>>
    ELSE legacy_branch(question_text, i + 1)

\* What the legacy flow of main.py answers a question with.
legacy_answer(question_text) == legacy_branch(question_text, 1)

MaxQuestions == 2

\* Texts of questions of a join.com form.
QEnglish == <<"Y", "o", "u", "r", " ", "l", "e", "v", "e", "l", " ", "o", "f", " ", "p", "r", "o", "f", "i", "c", "i", "e", "n", "c", "y", " ", "i", "n", " ", "E", "n", "g", "l", "i", "s", "h", "?">>
QEnglishLower == <<"l", "e", "v", "e", "l", " ", "o", "f", " ", "p", "r", "o", "f", "i", "c", "i", "e", "n", "c", "y", " ", "i", "n", " ", "e", "n", "g", "l", "i", "s", "h">>
QGerman == <<"Y", "o", "u", "r", " ", "l", "e", "v", "e", "l", " ", "o", "f", " ", "p", "r", "o", "f", "i", "c", "i", "e", "n", "c", "y", " ", "i", "n", " ", "G", "e", "r", "m", "a", "n", "?">>
QReside == <<"D", "o", " ", "y", "o", "u", " ", "r", "e", "s", "i", "d", "e", " ", "i", "n", " ", "S", "p", "a", "i", "n", "?">>
QStartReside == <<"A", "v", "a", "i", "l", "a", "b", "l", "e", " ", "t", "o", " ", "s", "t", "a", "r", "t", " ", "n", "o", "w", ",", " ", "r", "e", "s", "i", "d", "e", " ", "i", "n", " ", "E", "U", "?">>
QSalary == <<"E", "x", "p", "e", "c", "t", "e", "d", " ", "y", "e", "a", "r", "l", "y", " ", "c", "o", "m", "p", "e", "n", "s", "a", "t", "i", "o", "n">>
QHobbies == <<"H", "o", "b", "b", "i", "e", "s">>

QuestionTexts == {QEnglish, QEnglishLower, QGerman, QReside, QStartReside, QSalary, QHobbies}

QuestionLists == UNION {[1..n -> QuestionTexts] : n \in 0..MaxQuestions}

JoinFormCalls ==
    {[op |-> "submit_form_with_retry", done |-> FALSE, script |-> s] :
         s \in [1..MAX_RETRIES -> SubmitEvents]}
        \cup {[op |-> "handle_application_questions", done |-> FALSE,
               questions |-> q, fails |-> f] :
                  q \in QuestionLists, f \in 0..MaxQuestions}

InitJoinForm ==
    /\ call \in JoinFormCalls
    /\ ret = None
    /\ applied_txt = [exists |-> FALSE, content |-> <<>>]
    /\ recorded = {}
    /\ bot = None
    /\ job_urls = <<>>
    /\ pc = "idle"
    /\ idx = 0
    /\ invoked = <<>>
    /\ last = NoApply
    /\ scraper = NoSearch
    /\ ctx = NoContext

SubmitFormWithRetry ==
    /\ call.op = "submit_form_with_retry" /\ ~call.done
    /\ call' = [call EXCEPT !.done = TRUE]
    /\ ret' = submit_form_with_retry(call.script)
    /\ UNCHANGED <<applied_txt, recorded, bot, job_urls, pc, idx, invoked, last, scraper, ctx>>

HandleApplicationQuestions ==
    /\ call.op = "handle_application_questions" /\ ~call.done
    /\ call' = [call EXCEPT !.done = TRUE]
    /\ ret' = handle_application_questions(call.questions, call.fails)
    /\ UNCHANGED <<applied_txt, recorded, bot, job_urls, pc, idx, invoked, last, scraper, ctx>>

NextJoinForm == SubmitFormWithRetry \/ HandleApplicationQuestions

SpecJoinForm == InitJoinForm /\ [][NextJoinForm]_vars

-----------------------------------------------------------------------------
(* Claims about JoinApplicationBot                                           *)

\* By how much an iteration of the submit loop that meets e raises retry_count.
Weight(e) ==
    IF e = "submitted" THEN 0 ELSE IF e = "captcha_lost" THEN 2 ELSE 1

\* The failures counted in the first n iterations of a page behaving as script.
RECURSIVE Failures(_, _)
Failures(script, n) == IF n = 0 THEN 0 ELSE Failures(script, n - 1) + Weight(script[n])

\* C15: _submit_form_with_retry ends after at most MAX_RETRIES iterations
\* and at most MAX_RETRIES submit clicks, every iteration that does not
\* return counting at least one failure; it returns True exactly when an
\* iteration clicked submit and found no captcha error, fewer than
\* MAX_RETRIES failures having been counted before it, and it returns False
\* only once MAX_RETRIES failures (captcha errors and exceptions) are counted.
C15_SubmitTerminates ==
    Returned("submit_form_with_retry") =>
        /\ ret.iterations \in 1..MAX_RETRIES
        /\ ret.clicks <= ret.iterations
        /\ ret.clicks = Cardinality({j \in 1..ret.iterations : call.script[j] # "exception"})
        /\ \A j \in 1..(ret.iterations - 1) : Weight(call.script[j]) >= 1
        /\ ret.result <=>
               \E k \in 1..MAX_RETRIES :
                   /\ call.script[k] = "submitted"
                   /\ \A j \in 1..(k - 1) : call.script[j] # "submitted"
                   /\ Failures(call.script, k - 1) < MAX_RETRIES
        /\ ret.result => call.script[ret.iterations] = "submitted"
        /\ ~ret.result => Failures(call.script, ret.iterations) >= MAX_RETRIES

\* The captcha error shows after each of five clicks: False after the fifth.
C15_Witness ==
    /\ Returned("submit_form_with_retry")
    /\ \A j \in 1..MAX_RETRIES : call.script[j] = "captcha"
    /\ ~ret.result
    /\ ret.iterations = MAX_RETRIES
    /\ ret.clicks = MAX_RETRIES

\* The handler whose keyword is the first, in declaration order, that the
\* question text contains whatever the case of its letters.
RECURSIVE FirstKeyword(_, _)
FirstKeyword(text, i) ==
    IF i > Len(question_handlers) THEN <<>>
    ELSE IF Contains(Lower(text), Lower(question_handlers[i].keyword))
    THEN <<question_handlers[i].value>>
    ELSE FirstKeyword(text, i + 1)

\* C16: _handle_application_questions answers a question with at most one
\* handler, that of the first keyword, in declaration order, that the
\* question text contains; a question containing 'level of proficiency in
\* English' is answered with english_proficiency, as the legacy flow of
\* main.py does, and german_proficiency answers only the other 'level of
\* proficiency in' questions.
C16_FirstKeywordAnswers ==
    Returned("handle_application_questions") =>
        \A i \in 1..Len(ret.answers) :
            LET text == call.questions[i]
                answer == ret.answers[i]
            IN  /\ Len(answer) <= 1
                /\ answer = FirstKeyword(text, 1)
                /\ Contains(text, LEVEL_OF_PROFICIENCY_IN_ENGLISH) =>
                       /\ answer = <<"english_proficiency">>
                       /\ answer = legacy_answer(text)
                /\ answer = <<"german_proficiency">> =>
                       /\ Contains(Lower(text), LEVEL_OF_PROFICIENCY_IN)
                       /\ ~Contains(text, LEVEL_OF_PROFICIENCY_IN_ENGLISH)

-----------------------------------------------------------------------------
(* Claim about the two already-applied checks                                *)

\* C17: the already-applied check of LeverApplicationBot.apply_to_job agrees
\* with utils.is_already_applied on the same applied.txt: when the file is
\* read without error, Lever skips the job (False, nothing filled, nothing
\* recorded) exactly when is_already_applied(job_url) is True.
C17_LeverAgreesWithUtils ==
    (Applied("lever") /\ ~last.read_error) =>
        /\ last.skipped = "file" =>
               /\ is_already_applied(last.file_before, last.job_url, FALSE)
               /\ last.result = "False" /\ ~last.filled /\ last.record_calls = 0
        /\ (is_already_applied(last.file_before, last.job_url, FALSE) /\ ~last.caught) =>
               last.skipped = "file"

====
